---- MODULE Spec2Model ----
(***************************************************************************)
(* Model of src-tauri/src/main.rs: the entry point of the desktop shell.   *)
(*                                                                         *)
(*   #![cfg_attr(not(debug_assertions), windows_subsystem = "windows")]    *)
(*   fn main() {                                                           *)
(*       tauri::Builder::default()                                         *)
(*           .plugin(tauri_plugin_devtools::init())                        *)
(*           .run(tauri::generate_context!())                              *)
(*           .expect("error while running tauri application");             *)
(*   }                                                                     *)
(*                                                                         *)
(* main is one thread of control (pc).  The framework behind `run` is the  *)
(* environment: the call blocks, the framework either fails while it       *)
(* starts (Err(e)) or processes events until its loop ends (Ok(())).       *)
(* Result::expect is Rust's: on Err(e) it panics with "{msg}: {e:?}".      *)
(***************************************************************************)
EXTENDS Integers, Sequences, FiniteSets, TLC

\* Bound on the number of events the framework's loop processes in a run.
MaxEvents == 3

\* The message literal handed to expect (main.rs line 8).
ExpectMsg == "error while running tauri application"

\* The plugin value produced by tauri_plugin_devtools::init() (line 6).
DevtoolsPlugin == "tauri_plugin_devtools"

\* Debug renderings of the errors the framework's run may return.
ErrorKinds == {"Setup", "Runtime(CreateWindow)", "AssetNotFound"}

\* What the operating system hands the process; main declares no parameter
\* and reads none of it.
ArgvInputs == {<<>>, <<"--safe-mode">>}
EnvInputs == {"", "RUST_BACKTRACE=1"}

\* The names of main's calls, in source order.
MainCalls == <<"Builder::default", "plugin", "run", "expect">>

VARIABLES
    debug_assertions,   \* build mode: TRUE in a debug build
    windows_subsystem,  \* the crate attribute the build mode selects
    argv,               \* process arguments
    envp,               \* process environment
    pc,                 \* main's position
    builder,            \* the builder value threaded through the call chain
    runPhase,           \* the framework's run: idle, build, loop, returned
    runCalls,           \* how many times run was entered
    events,             \* events processed by the framework's loop
    result,             \* the Result run returned
    panicMsg,           \* the panic message, "" while there is none
    calls               \* history: main's calls so far, in order

vars == <<debug_assertions, windows_subsystem, argv, envp, pc, builder,
          runPhase, runCalls, events, result, panicMsg, calls>>

inputs == <<debug_assertions, windows_subsystem, argv, envp>>

\* Result<(), tauri::Error> values.
NoResult == [tag |-> "None", err |-> ""]
Ok == [tag |-> "Ok", err |-> ""]
Err(e) == [tag |-> "Err", err |-> e]

\* #![cfg_attr(not(debug_assertions), windows_subsystem = "windows")]
\* Without the attribute the subsystem is the default, "console".
cfg_attr(debug) == IF ~debug THEN "windows" ELSE "console"

\* tauri::Builder::default(): a builder with no plugin attached.
Builder_default == [built |-> TRUE, plugins |-> <<>>]

\* Builder::plugin(self, p): the builder with p attached after the others.
plugin(b, p) == [b EXCEPT !.plugins = Append(@, p)]

\* A faulty variant of expect: the panic carries the message alone, without the
\* error.
expect_bare(r, msg) ==
    IF r.tag = "Ok"
    THEN [panic |-> FALSE, message |-> ""]
    ELSE [panic |-> TRUE, message |-> msg]

\* A faulty variant of expect: the test on the result inverted.
expect_inverted(r, msg) ==
    IF r.tag = "Err"
    THEN [panic |-> FALSE, message |-> ""]
    ELSE [panic |-> TRUE, message |-> msg \o ": " \o r.err]

\* Result::expect(self, msg): Ok(()) unwraps, Err(e) panics with the
\* message followed by ": " and the Debug rendering of e.
expect(r, msg) ==
    IF r.tag = "Ok"
    THEN [panic |-> FALSE, message |-> ""]
    ELSE [panic |-> TRUE, message |-> msg \o ": " \o r.err]

Init ==
    /\ debug_assertions \in BOOLEAN
    /\ windows_subsystem = cfg_attr(debug_assertions)
    /\ argv \in ArgvInputs
    /\ envp \in EnvInputs
    /\ pc = "start"
    /\ builder = [built |-> FALSE, plugins |-> <<>>]
    /\ runPhase = "idle"
    /\ runCalls = 0
    /\ events = 0
    /\ result = NoResult
    /\ panicMsg = ""
    /\ calls = <<>>

\* line 5: tauri::Builder::default()
BuilderDefaultStep ==
    /\ pc = "start"
    /\ builder' = Builder_default
    /\ calls' = Append(calls, "Builder::default")
    /\ pc' = "built"
    /\ UNCHANGED <<inputs, runPhase, runCalls, events, result, panicMsg>>

\* A faulty variant of PluginStep: the plugin attached in debug builds only.
PluginStepDebugOnly ==
    /\ pc = "built"
    /\ builder' = IF debug_assertions THEN plugin(builder, DevtoolsPlugin)
                  ELSE builder
    /\ calls' = IF debug_assertions THEN Append(calls, "plugin") ELSE calls
    /\ pc' = "plugged"
    /\ UNCHANGED <<inputs, runPhase, runCalls, events, result, panicMsg>>

\* A faulty variant of PluginStep: the plugin attached twice.
PluginStepTwice ==
    /\ pc = "built"
    /\ builder' = plugin(plugin(builder, DevtoolsPlugin), DevtoolsPlugin)
    /\ calls' = Append(calls, "plugin")
    /\ pc' = "plugged"
    /\ UNCHANGED <<inputs, runPhase, runCalls, events, result, panicMsg>>

\* A faulty variant of PluginStep: attaching the plugin may itself abort.
PluginStepMayPanic ==
    /\ pc = "built"
    /\ calls' = Append(calls, "plugin")
    /\ \/ /\ builder' = plugin(builder, DevtoolsPlugin)
          /\ pc' = "plugged"
          /\ panicMsg' = panicMsg
       \/ /\ builder' = builder
          /\ pc' = "panicked"
          /\ panicMsg' = "failed to initialize plugin"
    /\ UNCHANGED <<inputs, runPhase, runCalls, events, result>>

\* line 6: .plugin(tauri_plugin_devtools::init())
PluginStep ==
    /\ pc = "built"
    /\ builder' = plugin(builder, DevtoolsPlugin)
    /\ calls' = Append(calls, "plugin")
    /\ pc' = "plugged"
    /\ UNCHANGED <<inputs, runPhase, runCalls, events, result, panicMsg>>

\* A faulty variant of RunEnter: run starts the loop and returns at once.
RunEnterDetached ==
    /\ pc = "plugged"
    /\ runPhase = "idle"
    /\ runPhase' = "build"
    /\ runCalls' = runCalls + 1
    /\ calls' = Append(calls, "run")
    /\ result' = Ok
    /\ pc' = "returned"
    /\ UNCHANGED <<inputs, builder, events, panicMsg>>

\* line 7: .run(tauri::generate_context!()) is entered; main blocks in it.
RunEnter ==
    /\ pc = "plugged"
    /\ runPhase = "idle"
    /\ runPhase' = "build"
    /\ runCalls' = runCalls + 1
    /\ calls' = Append(calls, "run")
    /\ pc' = "in_run"
    /\ UNCHANGED <<inputs, builder, events, result, panicMsg>>

\* line 7: the framework fails to start; run returns Err(e).
RunStartFails(e) ==
    /\ runPhase = "build"
    /\ pc = "in_run"
    /\ runPhase' = "returned"
    /\ result' = Err(e)
    /\ pc' = "returned"
    /\ UNCHANGED <<inputs, builder, runCalls, events, panicMsg, calls>>

\* line 7: the framework started; its event loop begins.
RunStartOk ==
    /\ runPhase = "build"
    /\ runPhase' = "loop"
    /\ UNCHANGED <<inputs, pc, builder, runCalls, events, result, panicMsg,
                   calls>>

\* line 7: the framework's loop processes one event.
RunLoopEvent ==
    /\ runPhase = "loop"
    /\ events < MaxEvents
    /\ events' = events + 1
    /\ UNCHANGED <<inputs, pc, builder, runPhase, runCalls, result, panicMsg,
                   calls>>

\* line 7: the framework's loop ends; run returns Ok(()).
RunLoopExit ==
    /\ runPhase = "loop"
    /\ pc = "in_run"
    /\ runPhase' = "returned"
    /\ result' = Ok
    /\ pc' = "returned"
    /\ UNCHANGED <<inputs, builder, runCalls, events, panicMsg, calls>>

\* A faulty variant of ExpectStep: a failed run is started again.
ExpectStepRetry ==
    /\ pc = "returned"
    /\ calls' = Append(calls, "expect")
    /\ IF expect(result, ExpectMsg).panic
       THEN /\ pc' = "plugged"
            /\ runPhase' = "idle"
            /\ panicMsg' = panicMsg
       ELSE /\ pc' = "unwrapped"
            /\ runPhase' = runPhase
            /\ panicMsg' = panicMsg
    /\ UNCHANGED <<inputs, builder, runCalls, events, result>>

\* A faulty variant of ExpectStep: an argument of the process silences the failure.
ExpectStepReadsArgv ==
    /\ pc = "returned"
    /\ calls' = Append(calls, "expect")
    /\ IF expect(result, ExpectMsg).panic /\ argv = <<>>
       THEN /\ pc' = "panicked"
            /\ panicMsg' = expect(result, ExpectMsg).message
       ELSE /\ pc' = "unwrapped"
            /\ panicMsg' = panicMsg
    /\ UNCHANGED <<inputs, builder, runPhase, runCalls, events, result>>

\* line 8: .expect("error while running tauri application")
ExpectStep ==
    /\ pc = "returned"
    /\ calls' = Append(calls, "expect")
    /\ IF expect(result, ExpectMsg).panic
       THEN /\ pc' = "panicked"
            /\ panicMsg' = expect(result, ExpectMsg).message
       ELSE /\ pc' = "unwrapped"
            /\ panicMsg' = panicMsg
    /\ UNCHANGED <<inputs, builder, runPhase, runCalls, events, result>>

\* line 9: the closing brace; main returns and the process exits normally.
MainReturn ==
    /\ pc = "unwrapped"
    /\ pc' = "exited"
    /\ UNCHANGED <<inputs, builder, runPhase, runCalls, events, result,
                   panicMsg, calls>>

\* The steps main itself takes.
Main ==
    \/ BuilderDefaultStep
    \/ PluginStep
    \/ RunEnter
    \/ ExpectStep
    \/ MainReturn

\* The steps of the framework inside run.
Framework ==
    \/ \E e \in ErrorKinds : RunStartFails(e)
    \/ RunStartOk
    \/ RunLoopEvent
    \/ RunLoopExit

Next == Main \/ Framework

Spec == Init /\ [][Next]_vars

\* main is straight-line code on a running thread: a step of main that is
\* enabled is taken.  Nothing forces the framework's loop to end.
FairSpec == Spec /\ WF_vars(Main)

----
\* Definitions the properties below are stated with.

Terminal == pc \in {"exited", "panicked"}

IsPrefix(s, t) == Len(s) <= Len(t) /\ SubSeq(t, 1, Len(s)) = s

\* The builder a given history of main's calls leaves behind.
BuilderAfter(cs) ==
    [built |-> Len(cs) >= 1,
     plugins |-> IF Len(cs) >= 2 THEN <<DevtoolsPlugin>> ELSE <<>>]

\* The terminal observation (position, panic message, calls) that belongs to
\* a result of run.
OutcomeOf(r) ==
    IF r.tag = "Ok"
    THEN <<"exited", "", MainCalls>>
    ELSE <<"panicked", ExpectMsg \o ": " \o r.err, MainCalls>>

----
\* C1 as stated: whenever run returned an error the process ends aborted,
\* the panic message is exactly the fixed message, and the abort is terminal.
C1_AsClaimed ==
    pc = "panicked" => panicMsg = ExpectMsg

\* C1 amended: whenever run returned an error the process ends aborted, the
\* panic message is the fixed message followed by ": " and the Debug
\* rendering of the error run returned (the fixed message is its proper
\* prefix), and no step follows the abort: it is never followed by a normal
\* exit.
C1_PanicOnErr ==
    /\ [](pc = "panicked" =>
            /\ result.tag = "Err"
            /\ panicMsg = ExpectMsg \o ": " \o result.err
            /\ Len(panicMsg) > Len(ExpectMsg)
            /\ SubSeq(panicMsg, 1, Len(ExpectMsg)) = ExpectMsg)
    /\ [][pc # "panicked"]_vars
    /\ (result.tag = "Err" ~> pc = "panicked")

C1_Witness ==
    /\ pc = "panicked"
    /\ result = Err("Setup")
    /\ panicMsg = "error while running tauri application: Setup"

\* C2: whenever run returned Ok, main is never in the aborted state and it
\* terminates normally, with no panic message.
C2_OkExitsNormally ==
    /\ [](result.tag = "Ok" => pc # "panicked" /\ panicMsg = "")
    /\ (result.tag = "Ok" ~> pc = "exited")

C2_Witness ==
    /\ pc = "exited"
    /\ result = Ok
    /\ events = MaxEvents

\* C3: main reaches normal termination only after run has returned; from
\* the moment run is entered until it returns main stays blocked in it and
\* takes no step of its own.
C3_BlockedInRun ==
    /\ [](pc \in {"unwrapped", "exited"} => runPhase = "returned")
    /\ [](runPhase \in {"build", "loop"} => pc = "in_run")
    /\ [][pc = "in_run" =>
            /\ calls' = calls
            /\ builder' = builder
            /\ pc' \in {"in_run", "returned"}
            /\ (pc' = "returned" => runPhase' = "returned")]_vars

C3_Witness ==
    /\ pc = "in_run"
    /\ runPhase = "loop"
    /\ events = 2

\* C4: run is started at most once; after it has returned, with success or
\* with an error, it is never entered again.
C4_RunAtMostOnce ==
    /\ [](runCalls <= 1)
    /\ [][result.tag # "None" =>
            /\ runCalls' = runCalls
            /\ runPhase' = "returned"
            /\ result' = result]_vars

C4_Witness ==
    /\ pc = "panicked"
    /\ runCalls = 1
    /\ runPhase = "returned"

\* C5: main's calls happen in the order Builder::default, plugin, run,
\* expect; the plugin is attached exactly once, and run is never entered
\* before the builder has been constructed and the plugin attached to it.
C5_FixedOrder ==
    /\ IsPrefix(calls, MainCalls)
    /\ Len(builder.plugins) <= 1
    /\ (runCalls > 0 =>
            /\ builder.built
            /\ builder.plugins = <<DevtoolsPlugin>>
            /\ IsPrefix(<<"Builder::default", "plugin", "run">>, calls))
    /\ (Terminal => builder.plugins = <<DevtoolsPlugin>>)

C5_Witness ==
    /\ pc = "in_run"
    /\ runPhase = "build"
    /\ calls = <<"Builder::default", "plugin", "run">>
    /\ builder.plugins = <<DevtoolsPlugin>>

\* C6: the aborted state is entered only from the result of the run step,
\* never while the builder is constructed or the plugin attached; every
\* execution in which run returns ends in exactly one of the two terminal
\* states, the one its result selects, and only those two states are final.
C6_SingleErrorPath ==
    /\ [][pc' = "panicked" => pc = "returned" /\ result.tag = "Err"]_vars
    /\ [](panicMsg # "" <=> pc = "panicked")
    /\ [](pc = "exited" => result.tag = "Ok")
    /\ [](~ENABLED Next /\ result.tag # "None" => Terminal)
    /\ [](Terminal => ~ENABLED Next)
    /\ (result.tag # "None" ~> Terminal)

C6_Witness ==
    /\ pc = "exited"
    /\ result = Ok
    /\ panicMsg = ""
    /\ events = 0

\* C7: the build mode decides the subsystem attribute and nothing else: in
\* a debug and in a non-debug build alike the builder is the one main's
\* calls so far produce, the plugin is attached before run is entered, and
\* the terminal state is the one the result of run selects.
C7_BuildModeIrrelevant ==
    /\ windows_subsystem = (IF debug_assertions THEN "console" ELSE "windows")
    /\ builder = BuilderAfter(calls)
    /\ IsPrefix(calls, MainCalls)
    /\ (pc \notin {"start", "built"} => builder.plugins = <<DevtoolsPlugin>>)
    /\ (Terminal => pc = OutcomeOf(result)[1])

C7_Witness ==
    /\ ~debug_assertions
    /\ windows_subsystem = "windows"
    /\ pc = "panicked"
    /\ builder.plugins = <<DevtoolsPlugin>>

\* C8: the terminal state, the panic message and the calls made are a
\* function of the result of run alone, whatever the arguments and the
\* environment of the process are.
C8_OutcomeFromResult ==
    Terminal => <<pc, panicMsg, calls>> = OutcomeOf(result)

C8_Witness ==
    /\ Terminal
    /\ argv = <<"--safe-mode">>
    /\ envp = "RUST_BACKTRACE=1"
    /\ result = Err("AssetNotFound")

====
